---- MODULE Spec2Model ----
(***************************************************************************)
(* Game-tree search (alpha_beta_prunning.py, minimax_adversary.py) and the *)
(* event loop of the grid visualizer (pathfinder_pacman.py).               *)
(*                                                                         *)
(* The two searches are modelled twice, from the same source lines:        *)
(*   - as a call-stack machine (one frame per active Python call, one      *)
(*     action per step of a function body), which gives the order of the   *)
(*     Game calls, the exceptions and the random adversary's choices;      *)
(*   - the adversary-free minimax as recursive operators, which give the   *)
(*     value of the unpruned sweep that the machine's results are compared *)
(*     with.                                                               *)
(***************************************************************************)
EXTENDS Integers, Sequences, FiniteSets, TLC

VARIABLES
    game,          \* the Game instance handed to the search
    root,          \* the state handed to the search
    player,        \* `player` of the running search
    adversary,     \* the `adversary` argument of minimax_decision
    phase,         \* "idle", "running", "done"
    form,          \* which entry point runs: "none", "alpha_beta", "minimax"
    stack,         \* the Python call stack of the search, innermost frame last
    ret,           \* the value a call has just returned to its caller
    outcome,       \* what the entry point returned, or the exception it raised
    tested,        \* states on which is_terminal / terminal_test returned False
    enumerated,    \* states game.actions was called on
    scored,        \* states game.utility was called on
    gstate,        \* GameSpec: the current state of a game being played
    probe,         \* GameSpec: the last direct call of game.utility and its result
    walls,         \* visualizer: the set of wall cells
    start,         \* visualizer: the start cell, or NoCell for None
    goal,          \* visualizer: the goal cell, or NoCell for None
    selected_alg,  \* visualizer: 'BFS', 'DFS', 'A*' or 'UCS'
    algo_gen,      \* visualizer: the search generator in progress, or NoGen for None
    waiting_for_set, \* visualizer: 'S', 'G' or "" for None
    auto_mode,     \* visualizer: auto-run is on
    stepping       \* visualizer: Space asked for steps

vizVars == <<walls, start, goal, selected_alg, algo_gen, waiting_for_set,
             auto_mode, stepping>>

vars == <<game, root, player, adversary, phase, form, stack, ret, outcome,
          tested, enumerated, scored, gstate, probe, vizVars>>

searchVars == <<game, root, player, adversary, phase, form, stack, ret, outcome,
                tested, enumerated, scored>>

(***************************************************************************)
(* Bounds                                                                  *)
(***************************************************************************)
MaxTokens == 7      \* largest pile a search or a game is started from
MaxTake == 3        \* largest max_take a NimGame is constructed with
GRID_COLS == 3      \* columns of the visualizer's grid (28 in the source)
MaxWalls == 2       \* most cells that are walls at the same time

(***************************************************************************)
(* Python values                                                           *)
(***************************************************************************)
\* float('inf'); every utility and heuristic score of the model is smaller
Inf == 1000
NegInf == 0 - Inf
\* Python's None where an action is expected (actions are 1, 2, ...)
None == 0

Players == {"A", "B"}
Other(p) == IF p = "A" THEN "B" ELSE "A"

Max(a, b) == IF a >= b THEN a ELSE b
Min(a, b) == IF a <= b THEN a ELSE b

\* the elements of a list
Elems(seq) == {seq[k] : k \in 1..Len(seq)}

(***************************************************************************)
(* Game implementations.  A state is <<n, to_move>>.                       *)
(*   NimGame(max_take): n is the number of tokens.                         *)
(*   TreeGame: a caller-written Game over the binary tree with root 1 and  *)
(*     children 2n, 2n+1 of node n; nodes 4..7 end the game with the       *)
(*     utility leaves[n-3] for player A (its negation for B); a node of    *)
(*     `stuck` is not terminal and has no legal action.                    *)
(***************************************************************************)
LeafUtils == {-1, 0, 1}
InnerNodes == 1..3
LeafNodes == 4..7

NimGame(max_take) ==
    [kind |-> "nim", max_take |-> max_take, leaves |-> <<>>, stuck |-> {}]

TreeGame(leaves, stuck) ==
    [kind |-> "tree", max_take |-> 0, leaves |-> leaves, stuck |-> stuck]

\* mutant: range(1, min(self.max_take, tokens)), the largest take left out
NimActionsOffByOne(g, s) ==
    [k \in 1..Max(0, Min(g.max_take, s[1]) - 1) |-> k]

\* [i for i in range(1, min(self.max_take, tokens) + 1)]
NimActions(g, s) ==
    [k \in 1..Max(0, Min(g.max_take, s[1])) |-> k]

\* (tokens - action, next_player)
NimResult(g, s, a) == <<s[1] - a, Other(s[2])>>

\* tokens == 0
NimIsTerminal(g, s) == s[1] = 0

\* mutant: the check of tokens left out
NimUtilityUnchecked(g, s, pl) ==
    LET loser == s[2]
        winner == IF loser = "A" THEN "B" ELSE "A"
    IN [ok |-> TRUE, v |-> IF winner = pl THEN 1 ELSE -1, err |-> ""]

\* mutant: the player to move taken for the winner
NimUtilityLoserWins(g, s, pl) ==
    IF s[1] # 0
    THEN [ok |-> FALSE, v |-> 0, err |-> "ValueError"]
    ELSE LET winner == s[2]
         IN [ok |-> TRUE, v |-> IF winner = pl THEN 1 ELSE -1, err |-> ""]

\* raises ValueError unless tokens == 0; the player to move has lost
NimUtility(g, s, pl) ==
    IF s[1] # 0
    THEN [ok |-> FALSE, v |-> 0, err |-> "ValueError"]
    ELSE LET loser == s[2]
             winner == IF loser = "A" THEN "B" ELSE "A"
         IN [ok |-> TRUE, v |-> IF winner = pl THEN 1 ELSE -1, err |-> ""]

TreeActions(g, s) ==
    IF s[1] \in InnerNodes \ g.stuck THEN <<1, 2>> ELSE <<>>

TreeResult(g, s, a) == <<2 * s[1] + a - 1, Other(s[2])>>

TreeIsTerminal(g, s) == s[1] \in LeafNodes \ g.stuck

TreeUtility(g, s, pl) ==
    IF ~TreeIsTerminal(g, s)
    THEN [ok |-> FALSE, v |-> 0, err |-> "ValueError"]
    ELSE LET u == g.leaves[s[1] - 3]
         IN [ok |-> TRUE, v |-> IF pl = "A" THEN u ELSE 0 - u, err |-> ""]

\* The Game interface, dispatched on the instance
Actions(g, s) == IF g.kind = "nim" THEN NimActions(g, s) ELSE TreeActions(g, s)
Result(g, s, a) == IF g.kind = "nim" THEN NimResult(g, s, a) ELSE TreeResult(g, s, a)
IsTerminal(g, s) == IF g.kind = "nim" THEN NimIsTerminal(g, s) ELSE TreeIsTerminal(g, s)
Utility(g, s, pl) == IF g.kind = "nim" THEN NimUtility(g, s, pl) ELSE TreeUtility(g, s, pl)
ToMove(g, s) == s[2]

(***************************************************************************)
(* The inputs of a search                                                  *)
(***************************************************************************)
NimGames == {NimGame(m) : m \in 1..MaxTake}
NimStates == (0..MaxTokens) \X Players

StuckSets == {{}} \cup {{n} : n \in 1..7}
TreeGames == {TreeGame(l, st) : l \in [1..4 -> LeafUtils], st \in StuckSets}
TreeRoot == <<1, "A">>

(***************************************************************************)
(* The call stack                                                          *)
(***************************************************************************)
\* alpha0, beta0: the window the call was passed; alpha, beta: the local names the
\* loop rebinds (alpha = max(alpha, v), beta = min(beta, v))
Frame(fn, s, alpha, beta) ==
    [fn |-> fn, s |-> s, pc |-> "test", acts |-> <<>>, i |-> 1,
     v |-> 0, best |-> None, alpha |-> alpha, beta |-> beta, chosen |-> None,
     alpha0 |-> alpha, beta0 |-> beta]

\* `ret` and `outcome` name the call they come from: its function and its state
NoState == <<0, "A">>
NoRet == [full |-> FALSE, v |-> 0, move |-> None, fn |-> "", s |-> NoState]
Value(v, move, f) == [full |-> TRUE, v |-> v, move |-> move, fn |-> f.fn, s |-> f.s]
Pending ==
    [kind |-> "pending", v |-> 0, move |-> None, err |-> "", fn |-> "", s |-> NoState]
Returned(v, move, f) ==
    [kind |-> "returned", v |-> v, move |-> move, err |-> "", fn |-> f.fn, s |-> f.s]
Raised(e, f) ==
    [kind |-> "raised", v |-> 0, move |-> None, err |-> e, fn |-> f.fn, s |-> f.s]

Top == stack[Len(stack)]
SetTop(f) == [stack EXCEPT ![Len(stack)] = f]
Running(fn, pc) == phase = "running" /\ Len(stack) > 0 /\ Top.fn = fn /\ Top.pc = pc

\* `return v, move` of the innermost call
Return(v, move) ==
    IF Len(stack) = 1
    THEN /\ stack' = <<>>
         /\ ret' = NoRet
         /\ phase' = "done"
         /\ outcome' = Returned(v, move, stack[Len(stack)])
    ELSE /\ stack' = SubSeq(stack, 1, Len(stack) - 1)
         /\ ret' = Value(v, move, stack[Len(stack)])
         /\ UNCHANGED <<phase, outcome>>

\* an exception raised in the innermost call: nobody catches it, every frame unwinds
Raise(e) ==
    /\ stack' = <<>>
    /\ ret' = NoRet
    /\ phase' = "done"
    /\ outcome' = Raised(e, stack[Len(stack)])

\* the caller goes on waiting for the call it makes
Call(f, callee) ==
    /\ stack' = Append(SetTop([f EXCEPT !.pc = "wait"]), callee)
    /\ UNCHANGED <<ret, phase, outcome>>

\* the innermost call moves on inside its own body
Goto(f) ==
    /\ stack' = SetTop(f)
    /\ UNCHANGED <<phase, outcome>>

NoAdversary == [kind |-> "none", h |-> "none"]

(***************************************************************************)
(* alpha_beta_prunning.py                                                  *)
(***************************************************************************)
\* if v2 > v: v, best_move = v2, a
MaxImproves(v2, v) == v2 > v
\* mutant: max_value goes on when v equals beta
BetaCutoffStrict(v, beta) == v > beta
\* if v >= beta: return
BetaCutoff(v, beta) == v >= beta
\* if v2 < v: v, best_move = v2, a
MinImproves(v2, v) == v2 < v
\* mutant: the cutoff of min_value tests the wrong side of alpha
AlphaCutoffWrongSide(v, alpha) == v >= alpha
\* if v <= alpha: return
AlphaCutoff(v, alpha) == v <= alpha

\* alpha_beta_search(game, state), up to its call of max_value
AlphaBetaSearch ==
    /\ phase = "idle"
    /\ phase' = "running"
    /\ form' = "alpha_beta"
    /\ player' = ToMove(game, root)
    /\ stack' = <<Frame("ab_max", root, NegInf, Inf)>>
    /\ UNCHANGED <<game, root, adversary, ret, outcome, tested, enumerated, scored>>

\* if game.is_terminal(state):
ABTerminalTest ==
    /\ phase = "running" /\ Len(stack) > 0
    /\ Top.fn \in {"ab_max", "ab_min"} /\ Top.pc = "test"
    /\ IF IsTerminal(game, Top.s)
       THEN /\ Goto([Top EXCEPT !.pc = "utility"])
            /\ UNCHANGED tested
       ELSE /\ Goto([Top EXCEPT !.pc = "enum"])
            /\ tested' = tested \cup {Top.s}
    /\ UNCHANGED <<game, root, player, adversary, form, ret, enumerated, scored>>

\* return game.utility(state, player), None
ABUtility ==
    /\ phase = "running" /\ Len(stack) > 0
    /\ Top.fn \in {"ab_max", "ab_min"} /\ Top.pc = "utility"
    /\ scored' = scored \cup {Top.s}
    /\ LET u == Utility(game, Top.s, player)
       IN IF u.ok THEN Return(u.v, None) ELSE Raise(u.err)
    /\ UNCHANGED <<game, root, player, adversary, form, tested, enumerated>>

\* max_value: v = -inf; best_move = None; for a in game.actions(state)
ABMaxEnumerate ==
    /\ Running("ab_max", "enum")
    /\ enumerated' = enumerated \cup {Top.s}
    /\ Goto([Top EXCEPT !.pc = "loop", !.acts = Actions(game, Top.s), !.i = 1,
                        !.v = NegInf, !.best = None])
    /\ UNCHANGED <<game, root, player, adversary, form, ret, tested, scored>>

\* max_value: the next iteration calls min_value, the end of the loop returns
ABMaxLoop ==
    /\ Running("ab_max", "loop")
    /\ LET f == Top
       IN IF f.i > Len(f.acts)
          THEN Return(f.v, f.best)
          ELSE Call(f, Frame("ab_min", Result(game, f.s, f.acts[f.i]), f.alpha, f.beta))
    /\ UNCHANGED <<game, root, player, adversary, form, tested, enumerated, scored>>

\* max_value: the rest of the iteration, once min_value has returned
ABMaxResume ==
    /\ Running("ab_max", "wait")
    /\ ret.full
    /\ LET f == Top
           a == f.acts[f.i]
           v == IF MaxImproves(ret.v, f.v) THEN ret.v ELSE f.v
           best == IF MaxImproves(ret.v, f.v) THEN a ELSE f.best
       IN IF BetaCutoff(v, f.beta)
          THEN Return(v, best)
          ELSE /\ Goto([f EXCEPT !.pc = "loop", !.i = f.i + 1, !.v = v, !.best = best,
                                 !.alpha = Max(f.alpha, v)])
               /\ ret' = NoRet
    /\ UNCHANGED <<game, root, player, adversary, form, tested, enumerated, scored>>

\* min_value: v = inf; best_move = None; for a in game.actions(state)
ABMinEnumerate ==
    /\ Running("ab_min", "enum")
    /\ enumerated' = enumerated \cup {Top.s}
    /\ Goto([Top EXCEPT !.pc = "loop", !.acts = Actions(game, Top.s), !.i = 1,
                        !.v = Inf, !.best = None])
    /\ UNCHANGED <<game, root, player, adversary, form, ret, tested, scored>>

\* min_value: the next iteration calls max_value, the end of the loop returns
ABMinLoop ==
    /\ Running("ab_min", "loop")
    /\ LET f == Top
       IN IF f.i > Len(f.acts)
          THEN Return(f.v, f.best)
          ELSE Call(f, Frame("ab_max", Result(game, f.s, f.acts[f.i]), f.alpha, f.beta))
    /\ UNCHANGED <<game, root, player, adversary, form, tested, enumerated, scored>>

\* min_value: the rest of the iteration, once max_value has returned
ABMinResume ==
    /\ Running("ab_min", "wait")
    /\ ret.full
    /\ LET f == Top
           a == f.acts[f.i]
           v == IF MinImproves(ret.v, f.v) THEN ret.v ELSE f.v
           best == IF MinImproves(ret.v, f.v) THEN a ELSE f.best
       IN IF AlphaCutoff(v, f.alpha)
          THEN Return(v, best)
          ELSE /\ Goto([f EXCEPT !.pc = "loop", !.i = f.i + 1, !.v = v, !.best = best,
                                 !.beta = Min(f.beta, v)])
               /\ ret' = NoRet
    /\ UNCHANGED <<game, root, player, adversary, form, tested, enumerated, scored>>

(***************************************************************************)
(* minimax_adversary.py: the adversaries                                   *)
(***************************************************************************)
\* the heuristics a caller may construct a HeuristicAdversary with:
\*   "tokens"     lambda s: s[0]   (the demo's greedy opponent)
\*   "negtokens"  lambda s: -s[0]
\*   "inf"        lambda s: float('inf')
Heuristics == {"tokens", "negtokens", "inf"}

Heuristic(h, s) ==
    CASE h = "tokens" -> s[1]
      [] h = "negtokens" -> 0 - s[1]
      [] OTHER -> Inf

\* mutant: the adversary keeps the greatest score
AdversaryMaximizes(val, best_value) == val > best_value
\* if val < best_value: best_value = val; best_action = a
AdversaryImproves(val, best_value) == val < best_value

\* HeuristicAdversary.choose_action, from iteration i of its loop on
RECURSIVE HeuristicLoop(_, _, _, _, _, _, _)
HeuristicLoop(g, s, h, acts, i, best_value, best_action) ==
    IF i > Len(acts)
    THEN best_action
    ELSE LET val == Heuristic(h, Result(g, s, acts[i]))
         IN IF AdversaryImproves(val, best_value)
            THEN HeuristicLoop(g, s, h, acts, i + 1, val, acts[i])
            ELSE HeuristicLoop(g, s, h, acts, i + 1, best_value, best_action)

HeuristicChooseAction(g, s, h, acts) == HeuristicLoop(g, s, h, acts, 1, Inf, None)

Adversaries ==
    {NoAdversary, [kind |-> "optimal", h |-> "none"], [kind |-> "random", h |-> "none"]}
        \cup {[kind |-> "heuristic", h |-> h] : h \in Heuristics}

(***************************************************************************)
(* minimax_adversary.py: minimax_decision without an adversary, as         *)
(* functions of the state (the unpruned sweep)                             *)
(***************************************************************************)
RECURSIVE MinimaxMaxValue(_, _, _), MinimaxMaxLoop(_, _, _, _, _, _)
RECURSIVE MinimaxMinValue(_, _, _), MinimaxMinLoop(_, _, _, _, _, _)

\* max_value(s)
MinimaxMaxValue(g, s, pl) ==
    IF IsTerminal(g, s)
    THEN Utility(g, s, pl).v
    ELSE MinimaxMaxLoop(g, s, pl, Actions(g, s), 1, NegInf)

\* for a in game.actions(s): v = max(v, min_value(game.result(s, a)))
MinimaxMaxLoop(g, s, pl, acts, i, v) ==
    IF i > Len(acts)
    THEN v
    ELSE MinimaxMaxLoop(g, s, pl, acts, i + 1,
                        Max(v, MinimaxMinValue(g, Result(g, s, acts[i]), pl)))

\* min_value(s) with adversary None
MinimaxMinValue(g, s, pl) ==
    IF IsTerminal(g, s)
    THEN Utility(g, s, pl).v
    ELSE MinimaxMinLoop(g, s, pl, Actions(g, s), 1, Inf)

\* for a in actions: v = min(v, max_value(game.result(s, a)))
MinimaxMinLoop(g, s, pl, acts, i, v) ==
    IF i > Len(acts)
    THEN v
    ELSE MinimaxMinLoop(g, s, pl, acts, i + 1,
                        Min(v, MinimaxMaxValue(g, Result(g, s, acts[i]), pl)))

\* mutant: a tie replaces the action kept
RootKeepsLast(val, best_value) == val >= best_value
\* if val > best_value: best_value = val; best_action = a
RootImproves(val, best_value) == val > best_value

\* the loop of minimax_decision over the root's actions
RECURSIVE MinimaxRootLoop(_, _, _, _, _, _, _)
MinimaxRootLoop(g, s, pl, acts, i, best_value, best_action) ==
    IF i > Len(acts)
    THEN [v |-> best_value, move |-> best_action]
    ELSE LET val == MinimaxMinValue(g, Result(g, s, acts[i]), pl)
         IN IF RootImproves(val, best_value)
            THEN MinimaxRootLoop(g, s, pl, acts, i + 1, val, acts[i])
            ELSE MinimaxRootLoop(g, s, pl, acts, i + 1, best_value, best_action)

\* minimax_decision(state, game, player): best_value and the best_action returned
MinimaxSweep(g, s, pl) == MinimaxRootLoop(g, s, pl, Actions(g, s), 1, NegInf, None)

(***************************************************************************)
(* minimax_adversary.py: minimax_decision as a call stack                  *)
(***************************************************************************)
\* the caller waits at `pc` for the call it makes
CallAt(f, pc, callee) ==
    /\ stack' = Append(SetTop([f EXCEPT !.pc = pc]), callee)
    /\ UNCHANGED <<ret, phase, outcome>>

\* minimax_decision(state, game, player, adversary), up to its loop
MinimaxDecision(pl, adv) ==
    /\ phase = "idle"
    /\ phase' = "running"
    /\ form' = "minimax"
    /\ player' = pl
    /\ adversary' = adv
    /\ stack' = <<[Frame("mm_root", root, NegInf, Inf) EXCEPT !.pc = "enum"]>>
    /\ UNCHANGED <<game, root, ret, outcome, tested, enumerated, scored>>

\* best_action = None; best_value = -inf; for a in game.actions(state)
MMRootEnumerate ==
    /\ Running("mm_root", "enum")
    /\ enumerated' = enumerated \cup {Top.s}
    /\ Goto([Top EXCEPT !.pc = "loop", !.acts = Actions(game, Top.s), !.i = 1,
                        !.v = NegInf, !.best = None])
    /\ UNCHANGED <<game, root, player, adversary, form, ret, tested, scored>>

\* the next iteration calls min_value, the end of the loop returns best_action
MMRootLoop ==
    /\ Running("mm_root", "loop")
    /\ LET f == Top
       IN IF f.i > Len(f.acts)
          THEN Return(f.v, f.best)
          ELSE Call(f, Frame("mm_min", Result(game, f.s, f.acts[f.i]), NegInf, Inf))
    /\ UNCHANGED <<game, root, player, adversary, form, tested, enumerated, scored>>

\* the rest of the iteration, once min_value has returned val
MMRootResume ==
    /\ Running("mm_root", "wait")
    /\ ret.full
    /\ LET f == Top
           up == RootImproves(ret.v, f.v)
       IN Goto([f EXCEPT !.pc = "loop", !.i = f.i + 1,
                         !.v = IF up THEN ret.v ELSE f.v,
                         !.best = IF up THEN f.acts[f.i] ELSE f.best])
    /\ ret' = NoRet
    /\ UNCHANGED <<game, root, player, adversary, form, tested, enumerated, scored>>

\* if game.terminal_test(s):
MMTerminalTest ==
    /\ phase = "running" /\ Len(stack) > 0
    /\ Top.fn \in {"mm_max", "mm_min"} /\ Top.pc = "test"
    /\ IF IsTerminal(game, Top.s)
       THEN /\ Goto([Top EXCEPT !.pc = "utility"])
            /\ UNCHANGED tested
       ELSE /\ Goto([Top EXCEPT !.pc = "enum"])
            /\ tested' = tested \cup {Top.s}
    /\ UNCHANGED <<game, root, player, adversary, form, ret, enumerated, scored>>

\* return game.utility(s, player)
MMUtility ==
    /\ phase = "running" /\ Len(stack) > 0
    /\ Top.fn \in {"mm_max", "mm_min"} /\ Top.pc = "utility"
    /\ scored' = scored \cup {Top.s}
    /\ LET u == Utility(game, Top.s, player)
       IN IF u.ok THEN Return(u.v, None) ELSE Raise(u.err)
    /\ UNCHANGED <<game, root, player, adversary, form, tested, enumerated>>

\* max_value: v = -inf; for a in game.actions(s)
MMMaxEnumerate ==
    /\ Running("mm_max", "enum")
    /\ enumerated' = enumerated \cup {Top.s}
    /\ Goto([Top EXCEPT !.pc = "loop", !.acts = Actions(game, Top.s), !.i = 1,
                        !.v = NegInf])
    /\ UNCHANGED <<game, root, player, adversary, form, ret, tested, scored>>

\* max_value: the next iteration calls min_value, the end of the loop returns v
MMMaxLoop ==
    /\ Running("mm_max", "loop")
    /\ LET f == Top
       IN IF f.i > Len(f.acts)
          THEN Return(f.v, None)
          ELSE Call(f, Frame("mm_min", Result(game, f.s, f.acts[f.i]), NegInf, Inf))
    /\ UNCHANGED <<game, root, player, adversary, form, tested, enumerated, scored>>

\* mutant: max_value keeps what the last min_value returned
MMMaxResumeKeepsLast ==
    /\ Running("mm_max", "wait")
    /\ ret.full
    /\ Goto([Top EXCEPT !.pc = "loop", !.i = Top.i + 1, !.v = ret.v])
    /\ ret' = NoRet
    /\ UNCHANGED <<game, root, player, adversary, form, tested, enumerated, scored>>

\* max_value: v = max(v, <what min_value returned>)
MMMaxResume ==
    /\ Running("mm_max", "wait")
    /\ ret.full
    /\ Goto([Top EXCEPT !.pc = "loop", !.i = Top.i + 1, !.v = Max(Top.v, ret.v)])
    /\ ret' = NoRet
    /\ UNCHANGED <<game, root, player, adversary, form, tested, enumerated, scored>>

\* mutant: min_value starts from -inf, as max_value does
MMMinEnumerateFromNegInf ==
    /\ Running("mm_min", "enum")
    /\ enumerated' = enumerated \cup {Top.s}
    /\ Goto([Top EXCEPT !.pc = IF adversary.kind = "none" THEN "loop" ELSE "choose",
                        !.acts = Actions(game, Top.s), !.i = 1, !.v = NegInf])
    /\ UNCHANGED <<game, root, player, adversary, form, ret, tested, scored>>

\* min_value: actions = game.actions(s); if adversary is None: v = inf
MMMinEnumerate ==
    /\ Running("mm_min", "enum")
    /\ enumerated' = enumerated \cup {Top.s}
    /\ Goto([Top EXCEPT !.pc = IF adversary.kind = "none" THEN "loop" ELSE "choose",
                        !.acts = Actions(game, Top.s), !.i = 1, !.v = Inf])
    /\ UNCHANGED <<game, root, player, adversary, form, ret, tested, scored>>

\* min_value, adversary None: the next iteration calls max_value, the end returns v
MMMinLoop ==
    /\ Running("mm_min", "loop")
    /\ LET f == Top
       IN IF f.i > Len(f.acts)
          THEN Return(f.v, None)
          ELSE Call(f, Frame("mm_max", Result(game, f.s, f.acts[f.i]), NegInf, Inf))
    /\ UNCHANGED <<game, root, player, adversary, form, tested, enumerated, scored>>

\* min_value, adversary None: v = min(v, <what max_value returned>)
MMMinResume ==
    /\ Running("mm_min", "wait")
    /\ ret.full
    /\ Goto([Top EXCEPT !.pc = "loop", !.i = Top.i + 1, !.v = Min(Top.v, ret.v)])
    /\ ret' = NoRet
    /\ UNCHANGED <<game, root, player, adversary, form, tested, enumerated, scored>>

\* min_value calls OptimalAdversary.choose_action: best_action = None; best_value = inf
OptimalChoose ==
    /\ Running("mm_min", "choose")
    /\ adversary.kind = "optimal"
    /\ CallAt(Top, "wait_choice",
              [Frame("opt_choose", Top.s, NegInf, Inf)
                   EXCEPT !.pc = "loop", !.acts = Top.acts, !.v = Inf])
    /\ UNCHANGED <<game, root, player, adversary, form, tested, enumerated, scored>>

\* OptimalAdversary: the next iteration calls evaluator(game.result(state, a)),
\* which is max_value; the end of the loop returns best_action
OptimalLoop ==
    /\ Running("opt_choose", "loop")
    /\ LET f == Top
       IN IF f.i > Len(f.acts)
          THEN Return(f.v, f.best)
          ELSE Call(f, Frame("mm_max", Result(game, f.s, f.acts[f.i]), NegInf, Inf))
    /\ UNCHANGED <<game, root, player, adversary, form, tested, enumerated, scored>>

\* OptimalAdversary: the rest of the iteration, once the evaluator has returned val
OptimalResume ==
    /\ Running("opt_choose", "wait")
    /\ ret.full
    /\ LET f == Top
           up == AdversaryImproves(ret.v, f.v)
       IN Goto([f EXCEPT !.pc = "loop", !.i = f.i + 1,
                         !.v = IF up THEN ret.v ELSE f.v,
                         !.best = IF up THEN f.acts[f.i] ELSE f.best])
    /\ ret' = NoRet
    /\ UNCHANGED <<game, root, player, adversary, form, tested, enumerated, scored>>

\* min_value: chosen = <what OptimalAdversary.choose_action returned>
OptimalChosen ==
    /\ Running("mm_min", "wait_choice")
    /\ ret.full
    /\ Goto([Top EXCEPT !.pc = "chosen", !.chosen = ret.move])
    /\ ret' = NoRet
    /\ UNCHANGED <<game, root, player, adversary, form, tested, enumerated, scored>>

\* min_value calls RandomAdversary.choose_action: random.choice(actions), which
\* raises IndexError on an empty list
RandomChoose ==
    /\ Running("mm_min", "choose")
    /\ adversary.kind = "random"
    /\ IF Top.acts = <<>>
       THEN Raise("IndexError")
       ELSE /\ \E a \in Elems(Top.acts) : Goto([Top EXCEPT !.pc = "chosen", !.chosen = a])
            /\ UNCHANGED ret
    /\ UNCHANGED <<game, root, player, adversary, form, tested, enumerated, scored>>

\* min_value calls HeuristicAdversary.choose_action
HeuristicChoose ==
    /\ Running("mm_min", "choose")
    /\ adversary.kind = "heuristic"
    /\ Goto([Top EXCEPT !.pc = "chosen",
                        !.chosen = HeuristicChooseAction(game, Top.s, adversary.h, Top.acts)])
    /\ UNCHANGED <<game, root, player, adversary, form, ret, tested, enumerated, scored>>

\* min_value: max_value(game.result(s, chosen)); with chosen None the subtraction
\* in result raises TypeError
MMMinApply ==
    /\ Running("mm_min", "chosen")
    /\ IF Top.chosen = None
       THEN Raise("TypeError")
       ELSE CallAt(Top, "wait_value", Frame("mm_max", Result(game, Top.s, Top.chosen), NegInf, Inf))
    /\ UNCHANGED <<game, root, player, adversary, form, tested, enumerated, scored>>

\* min_value: return <what max_value returned>
MMMinReturn ==
    /\ Running("mm_min", "wait_value")
    /\ ret.full
    /\ Return(ret.v, None)
    /\ UNCHANGED <<game, root, player, adversary, form, tested, enumerated, scored>>

(***************************************************************************)
(* A game being played, and a caller asking game.utility about its state   *)
(***************************************************************************)
NotAsked == [asked |-> FALSE, ok |-> FALSE, v |-> 0, err |-> ""]
NoProbe == [pl \in Players |-> NotAsked]

\* state = game.result(state, a) for a legal action a
Play(a) ==
    /\ a \in Elems(Actions(game, gstate))
    /\ gstate' = Result(game, gstate, a)
    /\ probe' = NoProbe
    /\ UNCHANGED <<searchVars, vizVars>>

\* game.utility(state, pl): the value returned or the exception raised
QueryUtility(pl) ==
    /\ LET u == Utility(game, gstate, pl)
       IN probe' = [probe EXCEPT ![pl] = [asked |-> TRUE, ok |-> u.ok, v |-> u.v, err |-> u.err]]
    /\ UNCHANGED gstate
    /\ UNCHANGED <<searchVars, vizVars>>

(***************************************************************************)
(* pathfinder_pacman.py: the event loop of main().  One action per event   *)
(* the loop handles and one for the timed step of the generator.  The      *)
(* window is never closed, the pace of the timed steps is free (a step may *)
(* be taken in any pass of the loop whose guard holds), and what is drawn  *)
(* (frontier, explored, path, current) is not part of the state.           *)
(***************************************************************************)
CELL_SIZE == 24
MARGIN == 20
GRID_ROWS == 2      \* rows of the grid (20 in the source)

Cells == (0..(GRID_COLS - 1)) \X (0..(GRID_ROWS - 1))
NoCell == <<-1, -1>>

\* pixel_to_cell(x, y): the cell under a pixel, NoCell (None) outside the grid
pixel_to_cell(x, y) ==
    LET cx == (x - MARGIN) \div CELL_SIZE
        cy == (y - MARGIN) \div CELL_SIZE
    IN IF 0 <= cx /\ cx < GRID_COLS /\ 0 <= cy /\ cy < GRID_ROWS
       THEN <<cx, cy>>
       ELSE NoCell

\* the pixels a click on the grid is tried at, along one axis of n cells: the first
\* pixel of every cell
PixelsAlong(n) == {MARGIN + k * CELL_SIZE : k \in 0..(n - 1)}

Algorithms == {"BFS", "DFS", "A*", "UCS"}

\* a generator object: the arguments bfs / dfs / astar / ucs was called with
NoGen == [live |-> FALSE, alg |-> "", start |-> NoCell, goal |-> NoCell, walls |-> {}]
NewGen(alg, s, g, w) == [live |-> TRUE, alg |-> alg, start |-> s, goal |-> g, walls |-> w]

VizInit ==
    /\ walls = {}
    /\ start = <<1, 1>>
    /\ goal = <<GRID_COLS - 2, GRID_ROWS - 2>>
    /\ selected_alg = "BFS"
    /\ algo_gen = NoGen
    /\ waiting_for_set = ""
    /\ auto_mode = FALSE
    /\ stepping = FALSE

\* KEYDOWN K_r: walls.clear(); algo_gen = None
KeyR ==
    /\ walls' = {}
    /\ algo_gen' = NoGen
    /\ UNCHANGED <<start, goal, selected_alg, waiting_for_set, auto_mode, stepping>>

\* KEYDOWN K_s / K_g: waiting_for_set = 'S' / 'G'
KeySetPending(k) ==
    /\ waiting_for_set' = k
    /\ UNCHANGED <<walls, start, goal, selected_alg, algo_gen, auto_mode, stepping>>

\* mutant: choosing an algorithm leaves the generator in progress
KeySelectKeepsGenerator(alg) ==
    /\ selected_alg' = alg
    /\ UNCHANGED <<walls, start, goal, algo_gen, waiting_for_set, auto_mode, stepping>>

\* KEYDOWN K_1 .. K_4: selected_alg = ...; algo_gen = None
KeySelect(alg) ==
    /\ selected_alg' = alg
    /\ algo_gen' = NoGen
    /\ UNCHANGED <<walls, start, goal, waiting_for_set, auto_mode, stepping>>

\* KEYDOWN K_SPACE: start the generator, or ask for steps of the one in progress
KeySpace ==
    /\ IF ~algo_gen.live
       THEN IF start = NoCell \/ goal = NoCell
            THEN UNCHANGED <<algo_gen, stepping>>
            ELSE /\ algo_gen' = NewGen(selected_alg, start, goal, walls)
                 /\ stepping' = TRUE
       ELSE /\ stepping' = TRUE
            /\ UNCHANGED algo_gen
    /\ UNCHANGED <<walls, start, goal, selected_alg, waiting_for_set, auto_mode>>

\* KEYDOWN K_a: auto_mode = not auto_mode
KeyA ==
    /\ auto_mode' = ~auto_mode
    /\ UNCHANGED <<walls, start, goal, selected_alg, algo_gen, waiting_for_set, stepping>>

\* mutant: a click never removes a wall
ToggleWallOnlyAdds(w, cell) == w \cup {cell}

\* if cell in walls: walls.remove(cell) else: walls.add(cell)
ToggleWall(w, cell) == IF cell \in w THEN w \ {cell} ELSE w \cup {cell}

\* MOUSEBUTTONDOWN with the pointer on cell `cell` (pixel_to_cell's result)
ClickCell(cell) ==
    IF cell = NoCell
    THEN UNCHANGED vizVars
    ELSE /\ algo_gen' = NoGen
         /\ UNCHANGED <<selected_alg, auto_mode, stepping>>
         /\ IF waiting_for_set = "S"
            THEN /\ start' = cell
                 /\ waiting_for_set' = ""
                 /\ UNCHANGED <<walls, goal>>
            ELSE IF waiting_for_set = "G"
            THEN /\ goal' = cell
                 /\ waiting_for_set' = ""
                 /\ UNCHANGED <<walls, start>>
            ELSE IF cell = start
            THEN /\ start' = NoCell
                 /\ UNCHANGED <<walls, goal, waiting_for_set>>
            ELSE IF cell = goal
            THEN /\ goal' = NoCell
                 /\ UNCHANGED <<walls, start, waiting_for_set>>
            ELSE /\ walls' = ToggleWall(walls, cell)
                 /\ Cardinality(walls') <= MaxWalls
                 /\ UNCHANGED <<start, goal, waiting_for_set>>

\* MOUSEBUTTONDOWN at pixel (x, y)
MouseButtonDown(x, y) == ClickCell(pixel_to_cell(x, y))

\* the timed step: next(algo_gen) yields a 'searching', 'found' or 'no_path' status
StepGenerator(status) ==
    /\ algo_gen.live
    /\ stepping \/ auto_mode
    /\ IF status = "searching"
       THEN UNCHANGED <<algo_gen, stepping>>
       ELSE /\ stepping' = FALSE
            /\ algo_gen' = NoGen
    /\ UNCHANGED <<walls, start, goal, selected_alg, waiting_for_set, auto_mode>>

(***************************************************************************)
(* Specification of the searches                                           *)
(***************************************************************************)
Init ==
    /\ \/ game \in NimGames /\ root \in NimStates
       \/ game \in TreeGames /\ root = TreeRoot
    /\ player = ToMove(game, root)
    /\ adversary = NoAdversary
    /\ phase = "idle"
    /\ form = "none"
    /\ stack = <<>>
    /\ ret = NoRet
    /\ outcome = Pending
    /\ tested = {}
    /\ enumerated = {}
    /\ scored = {}
    /\ gstate = root
    /\ probe = NoProbe
    /\ VizInit

Next ==
    \/ (AlphaBetaSearch /\ UNCHANGED <<gstate, probe, vizVars>>)
    \/ (ABTerminalTest /\ UNCHANGED <<gstate, probe, vizVars>>)
    \/ (ABUtility /\ UNCHANGED <<gstate, probe, vizVars>>)
    \/ (ABMaxEnumerate /\ UNCHANGED <<gstate, probe, vizVars>>)
    \/ (ABMaxLoop /\ UNCHANGED <<gstate, probe, vizVars>>)
    \/ (ABMaxResume /\ UNCHANGED <<gstate, probe, vizVars>>)
    \/ (ABMinEnumerate /\ UNCHANGED <<gstate, probe, vizVars>>)
    \/ (ABMinLoop /\ UNCHANGED <<gstate, probe, vizVars>>)
    \/ (ABMinResume /\ UNCHANGED <<gstate, probe, vizVars>>)
    \/ (\E pl \in Players, adv \in Adversaries : MinimaxDecision(pl, adv) /\ UNCHANGED <<gstate, probe, vizVars>>)
    \/ (MMRootEnumerate /\ UNCHANGED <<gstate, probe, vizVars>>)
    \/ (MMRootLoop /\ UNCHANGED <<gstate, probe, vizVars>>)
    \/ (MMRootResume /\ UNCHANGED <<gstate, probe, vizVars>>)
    \/ (MMTerminalTest /\ UNCHANGED <<gstate, probe, vizVars>>)
    \/ (MMUtility /\ UNCHANGED <<gstate, probe, vizVars>>)
    \/ (MMMaxEnumerate /\ UNCHANGED <<gstate, probe, vizVars>>)
    \/ (MMMaxLoop /\ UNCHANGED <<gstate, probe, vizVars>>)
    \/ (MMMaxResume /\ UNCHANGED <<gstate, probe, vizVars>>)
    \/ (MMMinEnumerate /\ UNCHANGED <<gstate, probe, vizVars>>)
    \/ (MMMinLoop /\ UNCHANGED <<gstate, probe, vizVars>>)
    \/ (MMMinResume /\ UNCHANGED <<gstate, probe, vizVars>>)
    \/ (OptimalChoose /\ UNCHANGED <<gstate, probe, vizVars>>)
    \/ (OptimalLoop /\ UNCHANGED <<gstate, probe, vizVars>>)
    \/ (OptimalResume /\ UNCHANGED <<gstate, probe, vizVars>>)
    \/ (OptimalChosen /\ UNCHANGED <<gstate, probe, vizVars>>)
    \/ (RandomChoose /\ UNCHANGED <<gstate, probe, vizVars>>)
    \/ (HeuristicChoose /\ UNCHANGED <<gstate, probe, vizVars>>)
    \/ (MMMinApply /\ UNCHANGED <<gstate, probe, vizVars>>)
    \/ (MMMinReturn /\ UNCHANGED <<gstate, probe, vizVars>>)

Spec == Init /\ [][Next]_vars

GameNext ==
    \/ \E a \in 1..MaxTake : Play(a)
    \/ \E pl \in Players : QueryUtility(pl)

GameSpec == Init /\ [][GameNext]_vars

(***************************************************************************)
(* Specification of the visualizer's event loop                            *)
(***************************************************************************)
\* no search and no game is running beside the visualizer
VizOnlyInit ==
    /\ game = NimGame(MaxTake) /\ root = <<MaxTokens, "A">>
    /\ Init

VizNext ==
    \/ (KeyR /\ UNCHANGED <<searchVars, gstate, probe>>)
    \/ (\E k \in {"S", "G"} : KeySetPending(k) /\ UNCHANGED <<searchVars, gstate, probe>>)
    \/ (\E alg \in Algorithms : KeySelect(alg) /\ UNCHANGED <<searchVars, gstate, probe>>)
    \/ (KeySpace /\ UNCHANGED <<searchVars, gstate, probe>>)
    \/ (KeyA /\ UNCHANGED <<searchVars, gstate, probe>>)
    \/ (\E x \in PixelsAlong(GRID_COLS), y \in PixelsAlong(GRID_ROWS) :
            MouseButtonDown(x, y) /\ UNCHANGED <<searchVars, gstate, probe>>)
    \/ (\E x \in {MARGIN - 1, MARGIN + GRID_COLS * CELL_SIZE} :
            MouseButtonDown(x, MARGIN) /\ UNCHANGED <<searchVars, gstate, probe>>)
    \/ (\E status \in {"searching", "found", "no_path"} :
            StepGenerator(status) /\ UNCHANGED <<searchVars, gstate, probe>>)

VizSpec == VizOnlyInit /\ [][VizNext]_vars

(***************************************************************************)
(* Properties                                                              *)
(***************************************************************************)
Done(f) == phase = "done" /\ form = f

\* a state that is not terminal and has no legal action
Stuck(g, s) == ~IsTerminal(g, s) /\ Actions(g, s) = <<>>

\* position of action a in the list acts (0 when it is not in it)
IndexOf(acts, a) ==
    IF a \in Elems(acts) THEN CHOOSE k \in 1..Len(acts) : acts[k] = a ELSE 0

\* C1: for every non-terminal root (NimGame piles up to MaxTokens with max_take up
\* to MaxTake, either player to move, and every TreeGame), the value and the action
\* that alpha_beta_search computes at the root are the best_value and best_action of
\* minimax_decision's unpruned sweep for player = to_move(state), no adversary.
C1_PruningEquivalence ==
    (Done("alpha_beta") /\ ~IsTerminal(game, root)) =>
        /\ outcome.kind = "returned"
        /\ outcome.v = MinimaxSweep(game, root, ToMove(game, root)).v
        /\ outcome.move = MinimaxSweep(game, root, ToMove(game, root)).move

\* C1 witness: a finished alpha-beta search of a tree without stuck nodes that never
\* scored one of the four leaves (a cutoff skipped it)
C1_Witness ==
    /\ Done("alpha_beta")
    /\ game.kind = "tree" /\ game.stuck = {}
    /\ Cardinality(scored) < 4

\* C2: NimGame(max_take=3), state (7, 'A'): alpha_beta_search returns 3, and
\* minimax_decision for player 'A' returns 3 with no adversary and with an
\* OptimalAdversary.
C2_DemoTakesThree ==
    (phase = "done" /\ game = NimGame(3) /\ root = <<7, "A">>) =>
        /\ form = "alpha_beta" => (outcome.kind = "returned" /\ outcome.move = 3)
        /\ (form = "minimax" /\ player = "A" /\ adversary.kind \in {"none", "optimal"})
               => (outcome.kind = "returned" /\ outcome.move = 3)

\* C2 witness: minimax_decision((7, 'A'), NimGame(3), 'A', OptimalAdversary()) has returned
C2_Witness ==
    /\ Done("minimax") /\ game = NimGame(3) /\ root = <<7, "A">>
    /\ player = "A" /\ adversary.kind = "optimal" /\ outcome.kind = "returned"

ChildValue(k) ==
    MinimaxMinValue(game, Result(game, root, Actions(game, root)[k]), player)

\* a pile the player to move loses from: a positive multiple of max_take + 1
LosingPile == game.kind = "nim" /\ root[1] > 0 /\ root[1] % (game.max_take + 1) = 0

\* C4: alpha_beta_search, and minimax_decision without an adversary, return the first
\* action, in the order of game.actions(state), among those whose value is the best;
\* in NimGame that is take 1 in every losing position of the player searched for.
C4_FirstBestAction ==
    (phase = "done" /\ Actions(game, root) # <<>> /\ ~IsTerminal(game, root)
        /\ (form = "alpha_beta" \/ (form = "minimax" /\ adversary.kind = "none"))) =>
        LET acts == Actions(game, root)
            m == IndexOf(acts, outcome.move)
        IN /\ outcome.kind = "returned"
           /\ m > 0
           /\ \A k \in 1..Len(acts) :
                 /\ ChildValue(k) <= ChildValue(m)
                 /\ k < m => ChildValue(k) < ChildValue(m)
           /\ (LosingPile /\ player = ToMove(game, root)) => outcome.move = 1

\* C4 witness: a finished search whose root has two actions of the best value and
\* which returned an action that is not the last of them
C4_Witness ==
    /\ phase = "done" /\ form = "alpha_beta" /\ outcome.kind = "returned"
    /\ LosingPile /\ Len(Actions(game, root)) > 1
    /\ outcome.move = 1

\* C5: whenever an adversary's choose_action has returned to min_value, having been
\* given a non-empty list of legal actions, what it returned is an element of that
\* list (for the optimal, the random and every heuristic adversary).
C5_AdversaryReturnsLegalAction ==
    (phase = "running" /\ Len(stack) > 0 /\ Top.fn = "mm_min" /\ Top.pc = "chosen"
        /\ Top.acts # <<>>) => Top.chosen \in Elems(Top.acts)

\* C6: NimGame.utility raises ValueError on every state with tokens > 0 reached from
\* the initial state, for either player, and returns a value only when tokens == 0.
C6_UtilityOnlyOnTerminal ==
    game.kind = "nim" =>
        \A pl \in Players :
            probe[pl].asked =>
                /\ gstate[1] > 0 => (~probe[pl].ok /\ probe[pl].err = "ValueError")
                /\ probe[pl].ok <=> gstate[1] = 0

\* C6 witness: utility was called on a state with tokens left that a move led to
C6_Witness ==
    /\ game.kind = "nim" /\ gstate # root /\ gstate[1] > 0
    /\ probe["A"].asked /\ probe["B"].asked
    /\ ~probe["A"].ok /\ ~probe["B"].ok

\* C7: in a terminal NimGame state, utility for 'A' is the negation of utility for
\* 'B', both are +1 or -1, and the player to move there scores -1.
C7_ZeroSum ==
    (game.kind = "nim" /\ gstate[1] = 0 /\ probe["A"].asked /\ probe["B"].asked) =>
        /\ probe["A"].ok /\ probe["B"].ok
        /\ probe["A"].v = 0 - probe["B"].v
        /\ probe["A"].v \in {1, -1} /\ probe["B"].v \in {1, -1}
        /\ probe[ToMove(game, gstate)].v = -1

\* C7 witness: both utilities of a terminal state reached by play were asked for
C7_Witness ==
    /\ game.kind = "nim" /\ gstate[1] = 0 /\ gstate # root
    /\ probe["A"].asked /\ probe["B"].asked /\ probe["A"].ok
    /\ probe["B"].v = 1

\* C9: game.actions is only called on states already tested and found non-terminal,
\* and game.utility only on terminal states, in both searches, the root included.
C9_TerminalTestFirst ==
    /\ enumerated \subseteq tested
    /\ \A s \in scored : IsTerminal(game, s)

\* the maximizing and minimizing evaluations of the two searches
Evaluations == {"ab_max", "ab_min", "mm_max", "mm_min"}

\* float('-inf') at a maximizing node, float('inf') at a minimizing node
Sentinel(fn) == IF fn \in {"ab_max", "mm_max"} THEN NegInf ELSE Inf

\* an evaluation of a stuck state returns the sentinel and no action
SentinelReturned ==
    /\ (ret.full /\ ret.fn \in Evaluations /\ Stuck(game, ret.s)) =>
           (ret.v = Sentinel(ret.fn) /\ ret.move = None)
    /\ (outcome.kind = "returned" /\ outcome.fn \in Evaluations /\ Stuck(game, outcome.s)) =>
           (outcome.v = Sentinel(outcome.fn) /\ outcome.move = None)

\* C10 as stated: on a non-terminal state without legal actions every maximizing and
\* minimizing evaluation of both searches, with or without an adversary, returns its
\* sentinel (-inf or +inf) with no action, and raises nothing.
C10_Original ==
    /\ SentinelReturned
    /\ ~(outcome.kind = "raised" /\ outcome.fn \in Evaluations /\ Stuck(game, outcome.s))

\* C10 amended: on a non-terminal state without legal actions, max_value and
\* min_value of the pruning form, max_value of the adversary form, and its min_value
\* when the adversary is None, return the sentinel with no action and raise nothing;
\* when an adversary is supplied, min_value returns nothing there: it raises
\* IndexError with a RandomAdversary and TypeError (game.result applied to the None
\* that choose_action returned) with an OptimalAdversary or a HeuristicAdversary.
C10_StuckState ==
    /\ SentinelReturned
    /\ (ret.full /\ ret.fn = "mm_min" /\ Stuck(game, ret.s)) => adversary.kind = "none"
    /\ (outcome.kind = "raised" /\ Stuck(game, outcome.s)) =>
           /\ outcome.fn = "mm_min"
           /\ adversary.kind # "none"
           /\ outcome.err = IF adversary.kind = "random" THEN "IndexError" ELSE "TypeError"
    /\ (phase = "done" /\ form = "minimax" /\ adversary.kind # "none"
            /\ root = TreeRoot /\ game.stuck = {2}) => outcome.kind = "raised"

\* C10 witness: min_value of the adversary form, without an adversary, has returned
\* +inf from a stuck state to its caller
C10_Witness ==
    /\ form = "minimax" /\ adversary.kind = "none"
    /\ ret.full /\ ret.fn = "mm_min" /\ Stuck(game, ret.s) /\ ret.v = Inf

\* the walls other than on cell c, the start and the goal are as before the step
OnlyWallChanges(c) ==
    /\ \A d \in Cells \ {c} : (d \in walls') <=> (d \in walls)
    /\ start' = start
    /\ goal' = goal

ABCalls == {k \in 1..Len(stack) : stack[k].fn \in {"ab_max", "ab_min"}}

\* C11: in the pruning form the root call is passed the window (-inf, +inf); every
\* call of max_value or min_value made by another is passed an alpha that is at
\* least the alpha its caller was passed and a beta that is at most the beta its
\* caller was passed; and every call is passed alpha < beta.
C11_WindowOnlyNarrows ==
    form = "alpha_beta" =>
        \A k \in ABCalls :
            /\ stack[k].alpha0 < stack[k].beta0
            /\ k = 1 => (stack[k].alpha0 = NegInf /\ stack[k].beta0 = Inf)
            /\ k > 1 => /\ stack[k].alpha0 >= stack[k - 1].alpha0
                        /\ stack[k].beta0 <= stack[k - 1].beta0

\* C11 witness: a call three levels below the root was passed a window that is
\* narrower on both sides than the root's, and narrower than the one its own
\* caller was passed
C11_Witness ==
    /\ form = "alpha_beta" /\ phase = "running" /\ Len(stack) >= 4
    /\ Top.alpha0 > NegInf /\ Top.beta0 < Inf
    /\ \/ Top.alpha0 > stack[Len(stack) - 1].alpha0
       \/ Top.beta0 < stack[Len(stack) - 1].beta0

\* the calls on the stack that evaluate a game state: max_value and min_value of both
\* forms and the root loop of minimax_decision (choose_action calls left out)
EvalCalls ==
    SelectSeq(stack, LAMBDA f : f.fn \in {"ab_max", "ab_min", "mm_root", "mm_max", "mm_min"})

\* along the evaluating calls the token count strictly decreases
TokensDecrease ==
    \A k \in 1..Len(EvalCalls) : k > 1 => EvalCalls[k].s[1] < EvalCalls[k - 1].s[1]

\* the recursive calls under the outermost one are at most the root's tokens
DepthWithinPlies == Len(EvalCalls) <= root[1] + 1

\* C12: for NimGame with any max_take >= 1 and any start state (n, p),
\* alpha_beta_search and minimax_decision (no adversary, optimal, random or any
\* heuristic adversary) run to completion: every recursive call is on fewer tokens
\* than its caller, the recursion is at most n deep, and a search that has ended
\* has returned (it has not raised).
C12_NimSearchReturns ==
    game.kind = "nim" =>
        /\ TokensDecrease
        /\ DepthWithinPlies
        /\ phase = "done" => outcome.kind = "returned"

\* C13: when minimax_decision is given an adversary (optimal, random or heuristic),
\* every value a max_value or min_value call returns for a state is at least that
\* state's minimax value for the same player (what the call returns with adversary
\* None), and the best_value the root loop ends with is at least the best_value of
\* the sweep with adversary None.
C13_AdversaryValueAtLeastMinimax ==
    (form = "minimax" /\ adversary.kind # "none") =>
        /\ (ret.full /\ ret.fn = "mm_max") =>
               ret.v >= MinimaxMaxValue(game, ret.s, player)
        /\ (ret.full /\ ret.fn = "mm_min") =>
               ret.v >= MinimaxMinValue(game, ret.s, player)
        /\ (phase = "done" /\ outcome.kind = "returned") =>
               outcome.v >= MinimaxSweep(game, root, player).v

\* C13 witness: against a random or a heuristic adversary minimax_decision has
\* returned with a best_value above the root's minimax value, the opponent model
\* having played a move that is not the minimizing one
C13_Witness ==
    /\ Done("minimax") /\ outcome.kind = "returned"
    /\ adversary.kind \in {"random", "heuristic"}
    /\ outcome.v = 1
    /\ MinimaxSweep(game, root, player).v = -1

\* C14: in the event loop, whenever a generator is in progress (algo_gen is not
\* None), start and goal are both set, and the selected algorithm, start, goal and
\* walls are the ones the generator was created with.
C14_GeneratorIsCurrent ==
    algo_gen.live =>
        /\ start # NoCell
        /\ goal # NoCell
        /\ algo_gen = NewGen(selected_alg, start, goal, walls)

\* C14 witness: a generator is in progress and being stepped after the algorithm,
\* the start and the walls have all been changed from their initial values
C14_Witness ==
    /\ algo_gen.live /\ stepping
    /\ selected_alg = "A*"
    /\ start # <<1, 1>>
    /\ Cardinality(walls) = 2

====
